---- MODULE Spec2Model ----
(***************************************************************************)
(* Thread-history synchronisation between the CopilotKit page             *)
(* (CopilotKitPage) and the Pydantic AI / AG-UI backend (ag_ui_endpoint,   *)
(* the history endpoint and the threads table), as written in             *)
(* .cursor/skills/copilotkit-pydanticai-persistence/SKILL.md.              *)
(***************************************************************************)
EXTENDS Integers, Sequences, FiniteSets, TLC

VARIABLES
    store,            \* threads table: thread_id -> row (messages_json, state_json)
    runs,             \* POST /agent requests: run id -> position in ag_ui_endpoint
    serverLog,        \* what the backend has logged
    threads,          \* useState<ThreadSummary[]>([])
    activeThreadId,   \* useState("")
    engineThreadId,   \* thread id held by useThreads() (set by setThreadId)
    messages,         \* message list held by useCopilotChatInternal() (set by setMessages)
    effects,          \* effects of the last render that have not run yet, in order
    listFetch,        \* the fetch of GET /threads issued by loadThreads
    historyFetches,   \* the fetches of GET /threads/{id}/messages, in issue order
    console,          \* what console.error has logged
    clicks,           \* thread buttons clicked so far
    agentState,       \* the state prop of ProverbsCard (AgentState)
    lastClick         \* the remove button of ProverbsCard clicked last

vars == <<store, runs, serverLog, threads, activeThreadId, engineThreadId, messages,
          effects, listFetch, historyFetches, console, clicks, agentState,
          lastClick>>

serverVars == <<store, runs, serverLog>>
cardVars == <<agentState, lastClick>>
clientVars == <<threads, activeThreadId, engineThreadId, messages, effects,
                listFetch, historyFetches, console, clicks>>

----------------------------------------------------------------------------
(* Bounds *)

MaxRuns == 2        \* POST /agent requests
MaxBatch == 2       \* incoming messages of one request
MaxClicks == 2      \* thread button clicks
MaxItems == 2       \* tasks, and datasets, shown by ProverbsCard

(* Values *)

ThreadIds == {"t1", "t2"}
MsgIds == {"m0", "m1"}
StateValues == {"s0", "s1"}
RunIds == 1..MaxRuns

NoThread == ""          \* useState(""): no thread selected
EngineDefaultThread == "engine default"   \* the id useThreads() holds before setThreadId
NoText == "no text"     \* a ModelMessage without user prompt part / without text
NoId == "no id"         \* a ModelMessage that came from no AG-UI message

\* All sequences over S of length lo..hi.
SeqsOf(S, lo, hi) == UNION {[1..n -> S] : n \in lo..hi}

\* AG-UI messages of a RunAgentInput: { id, role, content }.
IncomingMessages ==
    {[id |-> "m0", role |-> "user", content |-> "hi"],
     [id |-> "m1", role |-> "assistant", content |-> "ok"]}

\* The messages of one RunAgentInput: AG-UI ids are unique within a request.
Batches ==
    {b \in SeqsOf(IncomingMessages, 1, MaxBatch) :
        \A i, j \in 1..Len(b) : b[i].id = b[j].id => i = j}

----------------------------------------------------------------------------
(* Backend: message conversion *)

\* AGUIAdapter.load_messages on one message: a user message becomes a
\* ModelRequest with a UserPromptPart, an assistant message a ModelResponse
\* with text. src records the AG-UI id the message came from.
LoadMessage(m) ==
    [kind |-> IF m.role = "user" THEN "request" ELSE "response",
     text |-> m.content,
     src  |-> m.id]

load_messages(batch) == [i \in 1..Len(batch) |-> LoadMessage(batch[i])]

\* f"{thread_id}-history-{i}", i counted from 0 as enumerate does.
HistoryId(thread_id, i) == <<thread_id, "history", i>>

RECURSIVE model_messages_to_agui_from(_, _, _)
model_messages_to_agui_from(msgs, thread_id, i) ==
    IF i > Len(msgs) THEN <<>>
    ELSE LET msg == msgs[i]
             msg_id == HistoryId(thread_id, i - 1)
             rest == model_messages_to_agui_from(msgs, thread_id, i + 1)
         IN  IF msg.kind = "request"
             THEN IF msg.text # NoText
                  THEN <<[id |-> msg_id, role |-> "user", content |-> msg.text]>> \o rest
                  ELSE rest
             ELSE IF msg.text # NoText
                  THEN <<[id |-> msg_id, role |-> "assistant", content |-> msg.text]>> \o rest
                  ELSE rest

model_messages_to_agui(msgs, thread_id) ==
    model_messages_to_agui_from(msgs, thread_id, 1)

----------------------------------------------------------------------------
(* Backend: threads table and endpoints *)

\* A row of the threads table. valid_json is FALSE for a messages_json that
\* ModelMessagesTypeAdapter.validate_json rejects.
Row(msgs, state) ==
    [found |-> TRUE, valid_json |-> TRUE, messages_json |-> msgs, state_json |-> state]

\* db.get_thread finds no row.
NoRow ==
    [found |-> FALSE, valid_json |-> TRUE, messages_json |-> <<>>, state_json |-> ""]

InvalidRow ==
    [found |-> TRUE, valid_json |-> FALSE, messages_json |-> <<>>, state_json |-> "s0"]

\* Mutant of HistoryEndpoint: a thread that is not found is answered 404.
HistoryEndpoint_NotFoundIsError(db, thread_id) ==
    IF ~db[thread_id].found \/ ~db[thread_id].valid_json
    THEN [ok |-> FALSE, body |-> <<>>]
    ELSE [ok |-> TRUE,
          body |-> model_messages_to_agui(db[thread_id].messages_json, thread_id)]

\* GET /threads/{id}/messages: [] when the thread is not found, 500 when
\* messages_json is invalid, the converted messages otherwise.
HistoryEndpoint(db, thread_id) ==
    IF ~db[thread_id].found
    THEN [ok |-> TRUE, body |-> <<>>]
    ELSE IF ~db[thread_id].valid_json
         THEN [ok |-> FALSE, body |-> <<>>]
         ELSE [ok |-> TRUE,
               body |-> model_messages_to_agui(db[thread_id].messages_json, thread_id)]

\* Mutant of MergeHistory: the incoming messages are put before the stored ones.
MergeHistory_IncomingFirst(stored_messages, incoming_messages) ==
    incoming_messages \o stored_messages

\* message_history = [*stored_messages, *incoming_messages]
MergeHistory(stored_messages, incoming_messages) ==
    stored_messages \o incoming_messages

\* result.all_messages(): the history the run was given, then what the agent produced.
AllMessages(message_history, produced) == message_history \o produced

\* Mutant of SaveThread: only the messages are written, the stored state is kept.
SaveThread_KeepsState(db, thread_id, msgs, state) ==
    [db EXCEPT ![thread_id] = Row(msgs, db[thread_id].state_json)]

\* db.save_thread(thread_id, messages_json=..., state_json=...)
SaveThread(db, thread_id, msgs, state) ==
    [db EXCEPT ![thread_id] = Row(msgs, state)]

\* What an agent run appends: one ModelResponse, with text or (a tool call) without.
Produced == {<<[kind |-> "response", text |-> t, src |-> NoId]>> : t \in {"ok", NoText}}

IdleRun ==
    [pc |-> "idle", thread_id |-> NoThread, incoming |-> <<>>, loaded |-> <<>>,
     message_history |-> <<>>, deps |-> "", produced |-> <<>>]

\* ag_ui_endpoint up to the StreamingResponse: load the row, merge, build deps.
\* A missing row or an invalid messages_json raises before anything is written.
RunStart(r, thread_id, batch) ==
    /\ runs[r].pc = "idle"
    /\ \A q \in RunIds : q < r => runs[q].pc # "idle"
    /\ LET row == store[thread_id]
       IN  IF ~row.found \/ ~row.valid_json
           THEN runs' = [runs EXCEPT ![r].pc = "error", ![r].thread_id = thread_id]
           ELSE runs' = [runs EXCEPT ![r] =
                    [pc |-> "running",
                     thread_id |-> thread_id,
                     incoming |-> batch,
                     loaded |-> row.messages_json,
                     message_history |->
                         MergeHistory(row.messages_json, load_messages(batch)),
                     deps |-> row.state_json,
                     produced |-> <<>>]]
    /\ UNCHANGED <<store, serverLog, clientVars, cardVars>>

\* The run completes: on_complete(result) saves result.all_messages() and the
\* full deps.state, which the agent may have changed during the run.
RunComplete(r, produced, new_state) ==
    /\ runs[r].pc = "running"
    /\ store' = SaveThread(store, runs[r].thread_id,
                           AllMessages(runs[r].message_history, produced),
                           new_state)
    /\ runs' = [runs EXCEPT ![r].pc = "done", ![r].deps = new_state,
                            ![r].produced = produced]
    /\ UNCHANGED <<serverLog, clientVars, cardVars>>

\* The run ends without completing (agent or stream error): on_complete is not called.
RunAbort(r) ==
    /\ runs[r].pc = "running"
    /\ runs' = [runs EXCEPT ![r].pc = "error"]
    /\ UNCHANGED <<store, serverLog, clientVars, cardVars>>

\* The stream has completed and db.save_thread raises inside on_complete:
\* nothing is written, and on_complete neither catches, logs nor retries.
RunPersistFail(r) ==
    /\ runs[r].pc = "running"
    /\ runs' = [runs EXCEPT ![r].pc = "persist failed"]
    /\ UNCHANGED <<store, serverLog, clientVars, cardVars>>

----------------------------------------------------------------------------
(* Frontend: CopilotKitPage *)

\* What GET /threads may answer: thread summaries, identified by thread_id
\* (title and message_count are only displayed).
ThreadLists ==
    {l \in SeqsOf(ThreadIds, 0, Cardinality(ThreadIds)) :
        \A i, j \in 1..Len(l) : l[i] = l[j] => i = j}

\* Mutant of EffectsAfterSetActive: the history is fetched before the chat
\* engine is told the new thread id.
EffectsAfterSetActive_FetchFirst(id) ==
    IF id # activeThreadId THEN <<"loadHistory", "setThreadId">> ELSE <<>>

\* setActiveThreadId(id): a render with a changed activeThreadId schedules the
\* two effects that depend on it, in the order they are declared.
EffectsAfterSetActive(id) ==
    IF id # activeThreadId THEN <<"setThreadId", "loadHistory">> ELSE <<>>

\* useEffect(() => { loadThreads() }, []): issues the fetch of GET /threads.
\* The closure holds the activeThreadId of the render it was created in.
EffectLoadThreads ==
    /\ effects # <<>> /\ Head(effects) = "loadThreads"
    /\ listFetch' = [stage |-> "request", activeThreadId |-> activeThreadId,
                     result |-> "pending"]
    /\ effects' = Tail(effects)
    /\ UNCHANGED <<serverVars, cardVars, threads, activeThreadId, engineThreadId, messages,
                   historyFetches, console, clicks>>

\* Mutant of EffectSetThreadId: setThreadId is called without the test of
\* activeThreadId.
EffectSetThreadId_NoGuard ==
    /\ effects # <<>> /\ Head(effects) = "setThreadId"
    /\ engineThreadId' = activeThreadId
    /\ effects' = Tail(effects)
    /\ UNCHANGED <<serverVars, cardVars, threads, activeThreadId, messages, listFetch,
                   historyFetches, console, clicks>>

\* useEffect(() => { if (!activeThreadId) return; setThreadId(activeThreadId) })
EffectSetThreadId ==
    /\ effects # <<>> /\ Head(effects) = "setThreadId"
    /\ engineThreadId' =
           IF activeThreadId = NoThread THEN engineThreadId ELSE activeThreadId
    /\ effects' = Tail(effects)
    /\ UNCHANGED <<serverVars, cardVars, threads, activeThreadId, messages, listFetch,
                   historyFetches, console, clicks>>

\* A fetch of GET /threads/{thread_id}/messages that has just been issued.
HistoryRequest(thread_id) ==
    [thread_id |-> thread_id, stage |-> "request", result |-> "pending", body |-> <<>>]

\* useEffect(() => { if (!activeThreadId) return; loadHistory() }): issues the
\* fetch of the history of activeThreadId.
EffectLoadHistory ==
    /\ effects # <<>> /\ Head(effects) = "loadHistory"
    /\ historyFetches' =
           IF activeThreadId = NoThread THEN historyFetches
           ELSE Append(historyFetches, HistoryRequest(activeThreadId))
    /\ effects' = Tail(effects)
    /\ UNCHANGED <<serverVars, cardVars, threads, activeThreadId, engineThreadId, messages,
                   listFetch, console, clicks>>

\* Mutant of ListSelects: a list of one thread selects nothing.
ListSelects_NeedsTwo(data, closureActiveThreadId) ==
    Len(data) > 1 /\ closureActiveThreadId = NoThread

\* loadThreads after its await: a response that is not ok returns; otherwise
\* setThreads(data) and, when data is not empty and the closure's
\* activeThreadId is empty, setActiveThreadId(data[0].thread_id).
ListSelects(data, closureActiveThreadId) ==
    Len(data) > 0 /\ closureActiveThreadId = NoThread

ListResolve(ok, data) ==
    /\ effects = <<>>
    /\ listFetch.stage = "request"
    /\ listFetch' = [listFetch EXCEPT
           !.stage = "done", !.result = IF ok THEN "ok" ELSE "not ok"]
    /\ IF ok
       THEN /\ threads' = data
            /\ IF ListSelects(data, listFetch.activeThreadId)
               THEN /\ activeThreadId' = data[1]
                    /\ effects' = EffectsAfterSetActive(data[1])
               ELSE UNCHANGED <<activeThreadId, effects>>
       ELSE UNCHANGED <<threads, activeThreadId, effects>>
    /\ UNCHANGED <<serverVars, cardVars, engineThreadId, messages, historyFetches, console, clicks>>

\* loadThreads: fetch or response.json() throws; the catch logs.
ListThrow ==
    /\ effects = <<>>
    /\ listFetch.stage = "request"
    /\ listFetch' = [listFetch EXCEPT !.stage = "done", !.result = "thrown"]
    /\ console' = Append(console, "Failed to load threads")
    /\ UNCHANGED <<serverVars, cardVars, threads, activeThreadId, engineThreadId, messages,
                   effects, historyFetches, clicks>>

\* onClick={() => setActiveThreadId(thread.thread_id)} of a rendered thread button.
ClickThread(i) ==
    /\ effects = <<>>
    /\ clicks < MaxClicks
    /\ i \in 1..Len(threads)
    /\ clicks' = clicks + 1
    /\ activeThreadId' = threads[i]
    /\ effects' = EffectsAfterSetActive(threads[i])
    /\ UNCHANGED <<serverVars, cardVars, threads, engineThreadId, messages, listFetch,
                   historyFetches, console>>

\* GET /threads/{id}/messages: an invalid messages_json is logged.
HistoryLog(db, thread_id, log) ==
    IF db[thread_id].found /\ ~db[thread_id].valid_json
    THEN Append(log, "invalid messages_json")
    ELSE log

\* The backend answers the history request numbered i from the threads table.
HistoryServe(i) ==
    /\ i \in 1..Len(historyFetches)
    /\ historyFetches[i].stage = "request"
    /\ LET r == HistoryEndpoint(store, historyFetches[i].thread_id)
       IN  historyFetches' = [historyFetches EXCEPT
               ![i].stage = "response",
               ![i].result = IF r.ok THEN "ok" ELSE "not ok",
               ![i].body = r.body]
    /\ serverLog' = HistoryLog(store, historyFetches[i].thread_id, serverLog)
    /\ UNCHANGED <<store, runs, cardVars, threads, activeThreadId, engineThreadId,
                   messages, effects, listFetch, console, clicks>>

\* The messages displayed after loadHistory has taken the response of fetch f:
\* a response that is not ok returns, otherwise setMessages(data).
MessagesAfterResponse(f, shown, active) ==
    IF f.result = "ok" THEN f.body ELSE shown

\* loadHistory after its await, for the fetch numbered i.
HistoryResolve(i) ==
    /\ effects = <<>>
    /\ i \in 1..Len(historyFetches)
    /\ historyFetches[i].stage = "response"
    /\ historyFetches' = [historyFetches EXCEPT ![i].stage = "done"]
    /\ messages' = MessagesAfterResponse(historyFetches[i], messages, activeThreadId)
    /\ UNCHANGED <<serverVars, cardVars, threads, activeThreadId, engineThreadId, effects,
                   listFetch, console, clicks>>

\* loadHistory: fetch or response.json() throws for the fetch numbered i; the
\* catch logs.
HistoryThrow(i) ==
    /\ effects = <<>>
    /\ i \in 1..Len(historyFetches)
    /\ historyFetches[i].stage \in {"request", "response"}
    /\ historyFetches' = [historyFetches EXCEPT
           ![i].stage = "done", ![i].result = "thrown", ![i].body = <<>>]
    /\ console' = Append(console, "Failed to load thread messages")
    /\ UNCHANGED <<serverVars, cardVars, threads, activeThreadId, engineThreadId, messages,
                   effects, listFetch, clicks>>

----------------------------------------------------------------------------
(* Frontend: ProverbsCard *)

\* A task or a dataset as the card shows it: { name, status }.
Items ==
    {[name |-> "a", status |-> "todo"],
     [name |-> "a", status |-> "done"],
     [name |-> "b", status |-> "todo"]}

\* AgentState: tasks, datasets, and whatever else the state holds.
AgentStates ==
    [tasks : SeqsOf(Items, 0, MaxItems),
     datasets : SeqsOf(Items, 0, MaxItems),
     other : {"x", "y"}]

NoClick == [list |-> "none", index |-> 0]

\* Mutant of FilterOutIndex: every item equal to the clicked one is dropped.
FilterOutIndex_ByValue(items, index) ==
    SelectSeq(items, LAMBDA x : x # items[index])

\* items.filter((_, i) => i !== index), items counted from 1.
RECURSIVE FilterFrom(_, _, _)
FilterFrom(items, index, i) ==
    IF i > Len(items) THEN <<>>
    ELSE (IF i # index THEN <<items[i]>> ELSE <<>>)
             \o FilterFrom(items, index, i + 1)

FilterOutIndex(items, index) == FilterFrom(items, index, 1)

\* onClick of the remove button of the task at index:
\* setState({ ...state, tasks: state.tasks?.filter((_, i) => i !== index) })
RemoveTask(index) ==
    /\ index \in 1..Len(agentState.tasks)
    /\ agentState' =
           [agentState EXCEPT !.tasks = FilterOutIndex(agentState.tasks, index)]
    /\ lastClick' = [list |-> "tasks", index |-> index]
    /\ UNCHANGED <<serverVars, clientVars>>

\* onClick of the remove button of the dataset at index:
\* setState({ ...state, datasets: state.datasets?.filter((_, i) => i !== index) })
RemoveDataset(index) ==
    /\ index \in 1..Len(agentState.datasets)
    /\ agentState' =
           [agentState EXCEPT !.datasets = FilterOutIndex(agentState.datasets, index)]
    /\ lastClick' = [list |-> "datasets", index |-> index]
    /\ UNCHANGED <<serverVars, clientVars>>

----------------------------------------------------------------------------
(* Initial state *)

InitRows == {NoRow,
             Row(<<>>, "s0"),
             Row(<<[kind |-> "request", text |-> "hi", src |-> "m0"]>>, "s0"),
             InvalidRow}

ServerInit ==
    /\ store \in [ThreadIds -> InitRows]
    /\ runs = [r \in RunIds |-> IdleRun]
    /\ serverLog = <<>>

ClientInit ==
    /\ threads = <<>>
    /\ activeThreadId = NoThread
    /\ engineThreadId = EngineDefaultThread
    /\ messages = <<>>
    /\ effects = <<"loadThreads", "setThreadId", "loadHistory">>
    /\ listFetch = [stage |-> "none", activeThreadId |-> NoThread, result |-> "pending"]
    /\ historyFetches = <<>>
    /\ console = <<>>
    /\ clicks = 0

\* ProverbsCard before anything is tracked.
CardInit ==
    /\ agentState = [tasks |-> <<>>, datasets |-> <<>>, other |-> "x"]
    /\ lastClick = NoClick

\* ProverbsCard rendered with any state of at most MaxItems tasks and datasets.
CardAnyInit ==
    /\ store = [t \in ThreadIds |-> NoRow]
    /\ runs = [r \in RunIds |-> IdleRun]
    /\ serverLog = <<>>
    /\ ClientInit
    /\ agentState \in AgentStates
    /\ lastClick = NoClick

Init == ServerInit /\ ClientInit /\ CardInit

ServerNext ==
    \/ \E r \in RunIds, t \in ThreadIds, b \in Batches : RunStart(r, t, b)
    \/ \E r \in RunIds, p \in Produced, s \in StateValues : RunComplete(r, p, s)
    \/ \E r \in RunIds : RunAbort(r)
    \/ \E r \in RunIds : RunPersistFail(r)

ClientNext ==
    \/ EffectLoadThreads
    \/ EffectSetThreadId
    \/ EffectLoadHistory
    \/ \E ok \in BOOLEAN, data \in ThreadLists : ListResolve(ok, data)
    \/ ListThrow
    \/ \E i \in 1..Cardinality(ThreadIds) : ClickThread(i)
    \/ \E i \in 1..(MaxClicks + 1) : HistoryServe(i)
    \/ \E i \in 1..(MaxClicks + 1) : HistoryResolve(i)
    \/ \E i \in 1..(MaxClicks + 1) : HistoryThrow(i)

CardNext ==
    \/ \E i \in 1..MaxItems : RemoveTask(i)
    \/ \E i \in 1..MaxItems : RemoveDataset(i)

Next == ServerNext \/ ClientNext \/ CardNext

\* The backend alone: runs against the threads table.
ServerSpec == Init /\ [][ServerNext]_vars

\* The page alone, against a threads table that no run changes.
ClientSpec == Init /\ [][ClientNext]_vars

\* ProverbsCard alone, from any state it can be rendered with.
CardSpec == CardAnyInit /\ [][CardNext]_vars

\* Page and backend together.
Spec == Init /\ [][Next]_vars

----------------------------------------------------------------------------
(* Properties of the page (ClientSpec) *)

FetchIds == 1..Len(historyFetches)

AllFetchesDone == \A k \in FetchIds : historyFetches[k].stage = "done"

\* The fetch numbered i is taken by loadHistory, or throws, in this step.
Settles(i) == historyFetches[i].stage # "done" /\ historyFetches'[i].stage = "done"

\* The last history fetch issued for thread_id (0 when there is none).
LastFetchFor(thread_id) ==
    LET S == {k \in FetchIds : historyFetches[k].thread_id = thread_id}
    IN  IF S = {} THEN 0 ELSE CHOOSE k \in S : \A l \in S : l <= k

\* C1: when the active thread id changed from A to B and both history fetches
\* have resolved successfully, in whatever order, the displayed message list is
\* the history returned for B, the thread selected last.
C1_SecondThreadHistoryDisplayed ==
    \A i, j \in FetchIds :
        (/\ i < j
         /\ j = Len(historyFetches)
         /\ historyFetches[i].thread_id # historyFetches[j].thread_id
         /\ activeThreadId = historyFetches[j].thread_id
         /\ effects = <<>>
         /\ AllFetchesDone
         /\ historyFetches[i].result = "ok"
         /\ historyFetches[j].result = "ok")
        => messages = historyFetches[j].body

\* C3: a history fetch that fails, by throwing or by a response that is not ok,
\* leaves the displayed message list as it was and is logged.
C3_FailedFetchRetainsAndLogs ==
    [][\A i \in FetchIds :
          (Settles(i) /\ historyFetches'[i].result \in {"not ok", "thrown"})
          => /\ messages' = messages
             /\ console' = Append(console, "Failed to load thread messages")]_vars

\* C4: whenever a thread is selected and no history fetch for it is pending,
\* the displayed list is the list fetched for the active thread and holds no
\* message of another thread. Stated for the behaviours in which no history
\* fetch has failed, where it does not meet the rule that a failed fetch
\* keeps the previous list.
C4_DisplayedInSyncWithActive ==
    (/\ activeThreadId # NoThread
     /\ effects = <<>>
     /\ \A k \in FetchIds : historyFetches[k].result \in {"pending", "ok"}
     /\ \A k \in FetchIds :
            historyFetches[k].thread_id = activeThreadId
            => historyFetches[k].stage = "done")
    => /\ \A m \in 1..Len(messages) : messages[m].id[1] = activeThreadId
       /\ messages = historyFetches[LastFetchFor(activeThreadId)].body

\* C6: when the thread list fetch succeeds with a list that is not empty, the
\* active thread id becomes the first entry's id if no thread was selected,
\* and stays as it was otherwise.
C6_FirstThreadAutoSelected ==
    [][(listFetch.stage = "request" /\ listFetch'.stage = "done" /\ threads' # <<>>)
       => activeThreadId' =
              IF activeThreadId = NoThread THEN threads'[1] ELSE activeThreadId]_vars

\* The list of two threads has arrived with nothing selected, and the first
\* entry is now the active thread, known to the chat engine and being fetched.
C6_Witness ==
    /\ listFetch.stage = "done"
    /\ Len(threads) = 2
    /\ clicks = 0
    /\ activeThreadId = threads[1]
    /\ engineThreadId = threads[1]
    /\ Len(historyFetches) = 1

\* C7: for a thread id with no row in the threads table the history endpoint
\* answers the empty list and never an error, and the page, taking that
\* response, replaces the displayed list by the empty list.
C7_UnknownThreadIsEmptyHistory ==
    [][\A i \in FetchIds :
          ~store[historyFetches[i].thread_id].found
          => /\ (historyFetches[i].stage = "request"
                 /\ historyFetches'[i].stage = "response")
                => (historyFetches'[i].result = "ok" /\ historyFetches'[i].body = <<>>)
             /\ (historyFetches[i].stage = "response"
                 /\ historyFetches'[i].stage = "done"
                 /\ historyFetches'[i].result = "ok")
                => messages' = <<>>]_vars

\* A history with messages was displayed and the history of an unknown thread,
\* fetched later, has emptied the list.
C7_Witness ==
    \E i, j \in FetchIds :
        /\ i < j
        /\ AllFetchesDone
        /\ historyFetches[i].result = "ok"
        /\ historyFetches[i].body # <<>>
        /\ ~store[historyFetches[j].thread_id].found
        /\ historyFetches[j].result = "ok"
        /\ activeThreadId = historyFetches[j].thread_id
        /\ messages = <<>>

\* C8: every change of the active thread id is to a thread id and schedules
\* setThreadId and then loadHistory; a history fetch is issued only by
\* loadHistory, one at a time, for the active id, when the chat engine already
\* holds that id; a successful response overwrites the displayed list; and
\* once the effects have run the chat engine holds the active id.
C8_NotifyThenFetchThenOverwrite ==
    /\ [][activeThreadId' # activeThreadId
          => /\ activeThreadId' # NoThread
             /\ effects = <<>>
             /\ effects' = <<"setThreadId", "loadHistory">>]_vars
    /\ [][historyFetches' # historyFetches /\ Len(historyFetches') # Len(historyFetches)
          => /\ Head(effects) = "loadHistory"
             /\ ~("loadHistory" \in {Tail(effects)[k] : k \in 1..Len(Tail(effects))})
             /\ historyFetches' = Append(historyFetches, HistoryRequest(activeThreadId))
             /\ engineThreadId = activeThreadId]_vars
    /\ [][\A i \in FetchIds :
             (Settles(i) /\ historyFetches'[i].result = "ok")
             => messages' = historyFetches[i].body]_vars
    /\ [](activeThreadId # NoThread /\ effects = <<>>
          => /\ engineThreadId = activeThreadId
             /\ LastFetchFor(activeThreadId) = Len(historyFetches))

\* The active thread changed twice, each change was followed by one fetch, and
\* the response of the last one is displayed.
C8_Witness ==
    /\ Len(historyFetches) = 3
    /\ clicks = 2
    /\ effects = <<>>
    /\ engineThreadId = activeThreadId
    /\ historyFetches[3].thread_id = activeThreadId
    /\ historyFetches[3].stage = "done"
    /\ historyFetches[3].result = "ok"
    /\ historyFetches[3].body # <<>>
    /\ messages = historyFetches[3].body

----------------------------------------------------------------------------
(* Properties of the backend (ServerSpec) *)

IsPrefix(s, t) == Len(s) <= Len(t) /\ SubSeq(t, 1, Len(s)) = s

\* The AG-UI ids the stored messages msgs came from.
SourceIds(msgs) == {msgs[k].src : k \in 1..Len(msgs)} \ {NoId}

\* The run r completes in this step.
Completes(r) == runs[r].pc = "running" /\ runs'[r].pc = "done"

\* No incoming message of run r carries an id of the history the run loaded.
AllIncomingNew(r) ==
    \A k \in 1..Len(runs[r].incoming) :
        runs[r].incoming[k].id \notin SourceIds(runs[r].loaded)

\* C2: whatever ids the incoming batches repeat, the message list persisted
\* for a thread holds each message id at most once.
C2_PersistedIdsUnique ==
    \A t \in ThreadIds :
        LET msgs == store[t].messages_json
        IN  \A i, j \in 1..Len(msgs) :
                (msgs[i].src # NoId /\ msgs[i].src = msgs[j].src) => i = j

\* C5 as stated: when every incoming id is new to the stored history H, the
\* list stored after the run is exactly H followed by the incoming messages.
C5_StoredIsHistoryThenIncoming ==
    [][\A r \in RunIds :
          (/\ Completes(r)
           /\ AllIncomingNew(r)
           /\ store[runs[r].thread_id].messages_json = runs[r].loaded)
          => store'[runs[r].thread_id].messages_json
                 = runs[r].loaded \o load_messages(runs[r].incoming)]_vars

\* C5 amended: the list stored when the run completes is exactly the history H
\* the run loaded, then the incoming messages in their order, then the
\* messages the agent produced in the run, and nothing else.
C5_StoredIsHistoryIncomingProduced ==
    [][\A r \in RunIds :
          (Completes(r) /\ AllIncomingNew(r))
          => /\ runs'[r].produced \in Produced
             /\ store'[runs[r].thread_id].messages_json
                    = runs[r].loaded \o load_messages(runs[r].incoming)
                          \o runs'[r].produced]_vars

\* The run of the example has completed: m0 was stored, m1 came in.
C5_Witness ==
    \E r \in RunIds :
        /\ runs[r].pc = "done"
        /\ SourceIds(runs[r].loaded) = {"m0"}
        /\ Len(runs[r].incoming) = 1
        /\ runs[r].incoming[1].id = "m1"
        /\ Len(store[runs[r].thread_id].messages_json) = 3
        /\ store[runs[r].thread_id].messages_json
               = runs[r].loaded \o load_messages(runs[r].incoming) \o runs[r].produced

\* C9: the threads table changes only in the step in which a run completes,
\* and then the row of the run's thread becomes the run's full message list
\* and its full state and no other row changes; starting or aborting a run
\* leaves the table as it is.
C9_StoreWrittenOnlyOnCompletion ==
    [][/\ store' # store
          => \E r \in RunIds :
                /\ Completes(r)
                /\ store' = [store EXCEPT ![runs[r].thread_id] =
                       Row(runs[r].message_history \o runs'[r].produced,
                           runs'[r].deps)]
       /\ \A r \in RunIds :
             (runs'[r] # runs[r] /\ ~Completes(r)) => store' = store
       /\ \A r \in RunIds :
             Completes(r)
             => store'[runs[r].thread_id]
                    = Row(runs[r].message_history \o runs'[r].produced,
                          runs'[r].deps)]_vars

\* A completed run has replaced a stored history and a stored state, while
\* another run on the same thread is still running.
C9_Witness ==
    \E r, q \in RunIds :
        /\ runs[r].pc = "done"
        /\ runs[q].pc = "running"
        /\ runs[q].thread_id = runs[r].thread_id
        /\ runs[r].loaded # <<>>
        /\ runs[r].deps # "s0"
        /\ store[runs[r].thread_id]
               = Row(runs[r].message_history \o runs[r].produced, runs[r].deps)

\* C10: stored messages are append-only: in every step the list stored for a
\* thread is a prefix of the list stored after the step, and a thread that has
\* a row keeps it.
C10_StoredMessagesAppendOnly ==
    [][\A t \in ThreadIds :
          store[t].found
          => /\ store'[t].found
             /\ IsPrefix(store[t].messages_json, store'[t].messages_json)]_vars

----------------------------------------------------------------------------
(* Further properties of the page (ClientSpec) *)

\* C11: when the thread list fetch fails, by throwing or by a response that
\* is not ok, the thread list stays empty, no thread becomes selected, no
\* history fetch is issued or scheduled, and the failure is logged.
C11_FailedListFetchKeepsEmptyAndLogs ==
    [][(/\ listFetch.stage = "request"
        /\ listFetch'.stage = "done"
        /\ listFetch'.result \in {"not ok", "thrown"})
       => /\ threads' = <<>>
          /\ activeThreadId' = NoThread
          /\ historyFetches' = <<>>
          /\ effects' = <<>>
          /\ console' = Append(console, "Failed to load threads")]_vars

----------------------------------------------------------------------------
(* Further properties of the backend (ServerSpec) *)

\* The ids of the messages that a history read of thread_id returns from db.
HistoryIdsDistinct(db, thread_id) ==
    LET body == HistoryEndpoint(db, thread_id).body
    IN  \A i, j \in 1..Len(body) : body[i].id = body[j].id => i = j

\* A history read of thread_id from db and a later one from later give every
\* id they share to the same message.
HistoryIdsStable(db, later, thread_id) ==
    LET before == HistoryEndpoint(db, thread_id).body
        after == HistoryEndpoint(later, thread_id).body
    IN  \A i \in 1..Len(before), j \in 1..Len(after) :
            before[i].id = after[j].id => before[i] = after[j]

\* C12: the messages a history read returns carry pairwise distinct ids, and
\* an id keeps denoting the same message in every later read of the thread,
\* also after further runs have stored messages.
C12_HistoryIdsDistinctAndStable ==
    /\ [](\A t \in ThreadIds : HistoryIdsDistinct(store, t))
    /\ [][\A t \in ThreadIds : HistoryIdsStable(store, store', t)]_vars

----------------------------------------------------------------------------
\* C15: while no thread is selected the chat engine has not been given a
\* thread id, no history fetch has been issued and the displayed message list
\* has not been written.
C15_NothingBeforeSelection ==
    activeThreadId = NoThread
    => /\ engineThreadId = EngineDefaultThread
       /\ historyFetches = <<>>
       /\ messages = <<>>

\* The mount effects have run and the thread list has arrived empty: still
\* nothing is selected.
C15_Witness ==
    /\ activeThreadId = NoThread
    /\ effects = <<>>
    /\ listFetch.stage = "done"
    /\ listFetch.result = "ok"
    /\ engineThreadId = EngineDefaultThread
    /\ historyFetches = <<>>

----------------------------------------------------------------------------
\* C13: when the write in on_complete fails after the stream has completed,
\* the threads table keeps the thread's messages and state, the failure is
\* logged by the backend, and the write is not tried again.
C13_PersistFailureKeepsStoreAndLogs ==
    /\ [][\A r \in RunIds :
             (runs[r].pc = "running" /\ runs'[r].pc = "persist failed")
             => /\ store' = store
                /\ Len(serverLog') = Len(serverLog) + 1]_vars
    /\ [][\A r \in RunIds :
             runs[r].pc = "persist failed" => runs'[r] = runs[r]]_vars

\* C14: when two runs on one thread have both loaded the stored history
\* before either stored its result, and both have completed, the stored list
\* holds the incoming messages of both.
C14_OverlappingRunsKeepBoth ==
    \A r, q \in RunIds :
        (/\ r # q
         /\ runs[r].pc = "done" /\ runs[q].pc = "done"
         /\ runs[r].thread_id = runs[q].thread_id
         /\ runs[r].loaded = runs[q].loaded
         /\ \A x \in RunIds \ {r, q} :
                runs[x].thread_id = runs[r].thread_id => runs[x].pc # "done")
        => \A k \in 1..Len(runs[r].incoming) :
               runs[r].incoming[k].id
                   \in SourceIds(store[runs[r].thread_id].messages_json)

----------------------------------------------------------------------------
(* Properties of ProverbsCard (CardSpec) *)

\* items without the element at index, the others in their order.
WithoutIndex(items, index) ==
    SubSeq(items, 1, index - 1) \o SubSeq(items, index + 1, Len(items))

\* C16: a click on the remove button of the task at index i sets a state whose
\* tasks are the previous tasks without exactly the element at i, and whose
\* datasets and other fields are unchanged; and the same for a dataset with
\* tasks and datasets exchanged.
C16_RemoveDropsOnlyClickedItem ==
    [][agentState' # agentState \/ lastClick' # lastClick
       => /\ lastClick'.list \in {"tasks", "datasets"}
          /\ agentState'.other = agentState.other
          /\ lastClick'.list = "tasks"
             => /\ agentState'.tasks
                       = WithoutIndex(agentState.tasks, lastClick'.index)
                /\ Len(agentState'.tasks) = Len(agentState.tasks) - 1
                /\ agentState'.datasets = agentState.datasets
          /\ lastClick'.list = "datasets"
             => /\ agentState'.datasets
                       = WithoutIndex(agentState.datasets, lastClick'.index)
                /\ Len(agentState'.datasets) = Len(agentState.datasets) - 1
                /\ agentState'.tasks = agentState.tasks]_vars

\* The first of two tasks has been removed, and both datasets are still there.
C16_Witness ==
    /\ lastClick = [list |-> "tasks", index |-> 1]
    /\ Len(agentState.tasks) = 1
    /\ Len(agentState.datasets) = 2
    /\ agentState.other = "y"

====
